---- MODULE Spec2Model ----
(***************************************************************************)
(* Model of the CSV splitter: split_csv_memory_efficient / count_csv_rows  *)
(* of app.py and split_csv of split_csv.py.                                *)
(*                                                                         *)
(* A file is a sequence of lines.  A line is a record [id, form]:          *)
(*   form "empty"  the empty line ""                                       *)
(*   form "space"  a whitespace-only line                                  *)
(*   form "hdr"    the header line "a,b,c"                                 *)
(*   form "txt"    data row number id whose field is text                  *)
(*   form "int"    data row number id whose field is a canonical integer   *)
(*   form "pad"    data row number id whose field is a zero-padded integer *)
(* Data rows carry their input position in id, so that loss, duplication   *)
(* and reordering are visible.                                             *)
(***************************************************************************)
EXTENDS Integers, Sequences, FiniteSets, TLC

VARIABLES
    prog,                   \* "app" (app.py) or "cli" (split_csv.py)
    file,                   \* uploaded_file / input_file: the lines of the input
    binary,                 \* the file object yields bytes (st.file_uploader) or str
    chunk_size,             \* the capacity argument
    pc,                     \* position in the running function
    total_rows,             \* app.py:40
    num_output_files,       \* app.py:44
    read_chunk_size,        \* app.py:52
    header,                 \* app.py:62
    pos,                    \* lines of the file consumed so far (file position)
    first_chunk,            \* the pandas reader has not yet returned a chunk
    chunk_rows,             \* app.py:69, the rows of chunk_df still to be visited
    output_chunks,          \* app.py:54
    current_output_buffer,  \* app.py:55
    current_output_size,    \* app.py:56
    rows_processed,         \* app.py:57
    output_file_number,     \* app.py:58
    progress,               \* app.py:97, numerator of the fraction over total_rows
    error,                  \* which handler ended the call, "none" if none
    result,                 \* the returned (output_chunks, total_rows)
    chunk_number,           \* split_csv.py:19
    written                 \* split_csv.py:25, the files written so far

vars == <<prog, file, binary, chunk_size, pc, total_rows, num_output_files,
          read_chunk_size, header, pos, first_chunk, chunk_rows, output_chunks,
          current_output_buffer, current_output_size, rows_processed,
          output_file_number, progress, error, result, chunk_number, written>>

(***************************************************************************)
(* Bounds of the explored inputs.                                          *)
(***************************************************************************)
MaxRows == 22
MaxLead == 1
Capacities == {2, 10, 20}
RowStyles == {"txt", "num", "mix"}

(***************************************************************************)
(* Program constants.                                                      *)
(***************************************************************************)
ReadChunkCap == 5000
ReadChunkDivisor == 10

(***************************************************************************)
(* Lines.                                                                  *)
(***************************************************************************)
EmptyLine == [id |-> 0, form |-> "empty"]
SpaceLine == [id |-> 0, form |-> "space"]
HeaderLine == [id |-> 0, form |-> "hdr"]

\* str.strip() of one line: a whitespace-only line becomes the empty string.
StripLine(l) == IF l.form = "space" THEN EmptyLine ELSE l

\* bool(row.strip())
IsBlank(l) == StripLine(l) = EmptyLine

Min(a, b) == IF a <= b THEN a ELSE b

RECURSIVE SelectNonBlank(_)
SelectNonBlank(f) ==
    IF f = <<>> THEN <<>>
    ELSE IF IsBlank(Head(f)) THEN SelectNonBlank(Tail(f))
    ELSE <<Head(f)>> \o SelectNonBlank(Tail(f))

(***************************************************************************)
(* The inputs: an empty file, or MaxLead or fewer blank lines, the header, *)
(* n data rows, and possibly one whitespace-only line after row gap        *)
(* (gap = 0: right after the header, gap = n: after the last row).         *)
(***************************************************************************)
RowForm(style, i) ==
    CASE style = "txt" -> "txt"
      [] style = "num" -> IF i % 3 = 0 THEN "pad" ELSE "int"
      [] OTHER -> IF i % 3 = 0 THEN "pad" ELSE IF i % 3 = 1 THEN "txt" ELSE "int"

DataLines(n, style, gap) ==
    LET row(i) == [id |-> i, form |-> RowForm(style, i)]
        rows == [i \in 1..n |-> row(i)]
    IN  IF gap < 0 THEN rows
        ELSE SubSeq(rows, 1, gap) \o <<SpaceLine>> \o SubSeq(rows, gap + 1, n)

MakeFile(lead, n, style, gap) ==
    [i \in 1..lead |-> EmptyLine] \o <<HeaderLine>> \o DataLines(n, style, gap)

Inputs ==
    {<<>>} \cup
    UNION { { MakeFile(lead, n, style, gap) :
                lead \in 0..MaxLead, style \in RowStyles, gap \in -1..n } :
            n \in 0..MaxRows }

(***************************************************************************)
(* pandas.read_csv(f, chunksize=n) as the two programs use it: the reader  *)
(* starts at the current file position, skips blank and whitespace-only    *)
(* lines (skip_blank_lines), takes the first remaining line as its column  *)
(* names and then hands out the following lines n at a time.               *)
(***************************************************************************)
\* The reader refuses a chunksize below 1 (ValueError).
ChunksizeValid(n) == n >= 1

\* The position after the blank lines at position p (p lines are consumed).
RECURSIVE SkipBlank(_, _)
SkipBlank(f, p) ==
    IF p < Len(f) /\ IsBlank(f[p + 1]) THEN SkipBlank(f, p + 1) ELSE p

\* No line is left for the column names (EmptyDataError).
NoColumns(f, p) == SkipBlank(f, p) >= Len(f)

\* The position after the column-names line.
AfterColumns(f, p) == SkipBlank(f, p) + 1

\* The column-names line.
ColumnsLine(f, p) == f[SkipBlank(f, p) + 1]

\* Up to n non-blank lines from position p, and the position reached.
RECURSIVE TakeRows(_, _, _)
TakeRows(f, p, n) ==
    IF n = 0 \/ p >= Len(f) THEN [rows |-> <<>>, pos |-> p]
    ELSE IF IsBlank(f[p + 1]) THEN TakeRows(f, p + 1, n)
    ELSE LET r == TakeRows(f, p + 1, n - 1)
         IN  [rows |-> <<f[p + 1]>> \o r.rows, pos |-> r.pos]

\* Type inference over one chunk: the column is integer when every value of
\* the chunk parses as an integer, otherwise it keeps the text of every value.
IsIntegerColumn(rows) ==
    \A i \in 1..Len(rows) : rows[i].form \in {"int", "pad"}

\* DataFrame.to_csv of one value: an integer is written canonically.
WriteValue(l, asInteger) ==
    IF asInteger /\ l.form = "pad" THEN [id |-> l.id, form |-> "int"] ELSE l

\* chunk_df.to_csv(index=False, header=False).strip().split('\n'): one line per
\* row; the empty text of an empty frame splits into one empty string.
ToCsvRows(rows) ==
    IF rows = <<>> THEN <<EmptyLine>>
    ELSE [i \in 1..Len(rows) |-> WriteValue(rows[i], IsIntegerColumn(rows))]

\* chunk.to_csv(output_file, index=False): the column names, then the rows.
ToCsvFile(columns, rows) ==
    <<columns>> \o [i \in 1..Len(rows) |-> WriteValue(rows[i], IsIntegerColumn(rows))]

(***************************************************************************)
(* app.py                                                                  *)
(***************************************************************************)
\* count_csv_rows: every line the file object iterates over, minus one.
count_csv_rows(f) == Len(f) - 1

\* (total_rows + chunk_size - 1) // chunk_size
NumOutputFiles(total, c) == (total + c - 1) \div c

\* min(5000, chunk_size // 10)
ReadChunkSize(c) == Min(ReadChunkCap, c \div ReadChunkDivisor)

\* uploaded_file.readline().strip() at position 0: '' at end of file.
ReadHeader(f) == IF f = <<>> THEN EmptyLine ELSE StripLine(f[1])

\* The file position after that readline().
AfterHeader(f) == IF f = <<>> THEN 0 ELSE 1

\* f'split_{output_file_number}.csv'
SplitName(n) == [stem |-> "split_", index |-> n]

\* header + '\n' + '\n'.join(current_output_buffer)
CsvContent(h, buf) == <<h>> \o buf

\* The dict appended to output_chunks.
OutputChunk(h, buf, n, size) ==
    [content |-> CsvContent(h, buf), filename |-> SplitName(n), row_count |-> size]

\* header + '\n' raises TypeError when the header is bytes.
ConcatRaises(isBytes) == isBytes

\* current_output_buffer.append(row)
AppendRow(buf, row) == Append(buf, row)

\* The flush test with > for >=.
FlushDueLate(size, c) == size > c

\* if current_output_size >= chunk_size
FlushDue(size, c) == size >= c

\* The increment of output_file_number left out.
NextFileNumberStuck(n) == n

\* output_file_number += 1
NextFileNumber(n) == n + 1

\* The test of the remaining rows left out.
HasRemainingAlways(buf) == TRUE

\* if current_output_buffer
HasRemaining(buf) == buf # <<>>

\* min(rows_processed / total_rows, 1.0), as the numerator over total_rows
Progress(rows, total) == Min(rows, total)

\* return [], 0
EmptyResult == [chunks |-> <<>>, total |-> 0]

\* main: what the page reports for a returned (output_files, total_rows)
MainReport(r) ==
    IF r.total = 0 \/ Len(r.chunks) = 0 THEN "no_data" ELSE "success"

Init ==
    /\ prog \in {"app", "cli"}
    /\ file \in Inputs
    /\ binary \in BOOLEAN
    /\ prog = "cli" => ~binary
    /\ chunk_size \in Capacities
    /\ pc = "start"
    /\ total_rows = 0
    /\ num_output_files = 0
    /\ read_chunk_size = 0
    /\ header = EmptyLine
    /\ pos = 0
    /\ first_chunk = TRUE
    /\ chunk_rows = <<>>
    /\ output_chunks = <<>>
    /\ current_output_buffer = <<>>
    /\ current_output_size = 0
    /\ rows_processed = 0
    /\ output_file_number = 1
    /\ progress = 0
    /\ error = "none"
    /\ result = EmptyResult
    /\ chunk_number = 1
    /\ written = <<>>

Input == <<prog, file, binary, chunk_size>>
Cli == <<chunk_number, written>>
Buffers == <<output_chunks, current_output_buffer, current_output_size,
             rows_processed, output_file_number>>

\* The call ends in the handler named e, which returns [], 0.
Fails(e) ==
    /\ pc' = "done"
    /\ error' = e
    /\ result' = EmptyResult

\* app.py:36-62: count the rows, return early on zero, set up, read the header.
Start ==
    /\ prog = "app"
    /\ pc = "start"
    /\ total_rows' = count_csv_rows(file)
    /\ IF total_rows' = 0
       THEN /\ pc' = "done"
            /\ result' = EmptyResult
            /\ UNCHANGED <<num_output_files, read_chunk_size, header, pos>>
       ELSE /\ pc' = "open"
            /\ num_output_files' = NumOutputFiles(total_rows', chunk_size)
            /\ read_chunk_size' = ReadChunkSize(chunk_size)
            /\ header' = ReadHeader(file)
            /\ pos' = AfterHeader(file)
            /\ UNCHANGED result
    /\ UNCHANGED <<Input, Cli, Buffers, first_chunk, chunk_rows, progress, error>>

\* app.py:66: pd.read_csv(uploaded_file, chunksize=read_chunk_size) from the
\* position the readline() left; its errors end in the handler of line 105.
OpenReader ==
    /\ prog = "app"
    /\ pc = "open"
    /\ IF ~ChunksizeValid(read_chunk_size) \/ NoColumns(file, pos)
       THEN /\ Fails("processing")
            /\ UNCHANGED pos
       ELSE /\ pc' = "read"
            /\ pos' = AfterColumns(file, pos)
            /\ UNCHANGED <<error, result>>
    /\ UNCHANGED <<Input, Cli, Buffers, total_rows, num_output_files,
                   read_chunk_size, header, first_chunk, chunk_rows, progress>>

\* app.py:66-69: the reader's next chunk and its to_csv lines, or the end of
\* the iteration.
ReadChunk ==
    /\ prog = "app"
    /\ pc = "read"
    /\ LET r == TakeRows(file, pos, read_chunk_size)
       IN  /\ pos' = r.pos
           /\ IF r.rows = <<>> /\ ~first_chunk
              THEN /\ pc' = "finish"
                   /\ UNCHANGED chunk_rows
              ELSE /\ pc' = "rows"
                   /\ chunk_rows' = ToCsvRows(r.rows)
    /\ first_chunk' = FALSE
    /\ UNCHANGED <<Input, Cli, Buffers, total_rows, num_output_files,
                   read_chunk_size, header, progress, error, result>>

\* app.py:66, 105-107: the read raises (I/O, decoding, parsing).
ReadFails ==
    /\ prog = "app"
    /\ pc = "read"
    /\ Fails("processing")
    /\ UNCHANGED <<Input, Cli, Buffers, total_rows, num_output_files,
                   read_chunk_size, header, pos, first_chunk, chunk_rows, progress>>

\* app.py:71-94: one row of chunk_rows.
ProcessRow ==
    /\ prog = "app"
    /\ pc = "rows"
    /\ chunk_rows # <<>>
    /\ chunk_rows' = Tail(chunk_rows)
    /\ LET row == Head(chunk_rows)
           buf == AppendRow(current_output_buffer, row)
           size == current_output_size + 1
       IN  IF IsBlank(row)
           THEN UNCHANGED <<Buffers, pc, error, result>>
           ELSE /\ rows_processed' = rows_processed + 1
                /\ IF ~FlushDue(size, chunk_size)
                   THEN /\ current_output_buffer' = buf
                        /\ current_output_size' = size
                        /\ UNCHANGED <<output_chunks, output_file_number,
                                       pc, error, result>>
                   ELSE IF ConcatRaises(binary)
                   THEN /\ current_output_buffer' = buf
                        /\ current_output_size' = size
                        /\ Fails("csv")
                        /\ UNCHANGED <<output_chunks, output_file_number>>
                   ELSE /\ output_chunks' = Append(output_chunks,
                               OutputChunk(header, buf, output_file_number, size))
                        /\ current_output_buffer' = <<>>
                        /\ current_output_size' = 0
                        /\ output_file_number' = NextFileNumber(output_file_number)
                        /\ UNCHANGED <<pc, error, result>>
    /\ UNCHANGED <<Input, Cli, total_rows, num_output_files, read_chunk_size,
                   header, pos, first_chunk, progress>>

\* app.py:96-103: the progress update after the rows of one chunk.
UpdateProgress ==
    /\ prog = "app"
    /\ pc = "rows"
    /\ chunk_rows = <<>>
    /\ progress' = Progress(rows_processed, total_rows)
    /\ pc' = "read"
    /\ UNCHANGED <<Input, Cli, Buffers, total_rows, num_output_files,
                   read_chunk_size, header, pos, first_chunk, chunk_rows,
                   error, result>>

\* app.py:109-127: the remaining rows, and the return.
Finish ==
    /\ prog = "app"
    /\ pc = "finish"
    /\ IF HasRemaining(current_output_buffer) /\ ConcatRaises(binary)
       THEN /\ Fails("csv")
            /\ UNCHANGED <<output_chunks, progress>>
       ELSE /\ output_chunks' =
                  IF HasRemaining(current_output_buffer)
                  THEN Append(output_chunks,
                              OutputChunk(header, current_output_buffer,
                                          output_file_number, current_output_size))
                  ELSE output_chunks
            /\ progress' = total_rows
            /\ pc' = "done"
            /\ result' = [chunks |-> output_chunks', total |-> total_rows]
            /\ UNCHANGED error
    /\ UNCHANGED <<Input, Cli, total_rows, num_output_files, read_chunk_size,
                   header, pos, first_chunk, chunk_rows, current_output_buffer,
                   current_output_size, rows_processed, output_file_number>>

(***************************************************************************)
(* split_csv.py                                                            *)
(***************************************************************************)
\* f"{base_name}_part{chunk_number}.csv"
PartName(n) == [stem |-> "_part", index |-> n]

\* chunk_number += 1
NextChunkNumber(n) == n + 1

\* split_csv.py:20: pd.read_csv(input_file, chunksize=chunk_size) from the start
\* of the file; its errors are not caught.
CliOpen ==
    /\ prog = "cli"
    /\ pc = "start"
    /\ IF ~ChunksizeValid(chunk_size) \/ NoColumns(file, 0)
       THEN /\ pc' = "done"
            /\ error' = "uncaught"
            /\ UNCHANGED <<header, pos>>
       ELSE /\ pc' = "read"
            /\ header' = ColumnsLine(file, 0)
            /\ pos' = AfterColumns(file, 0)
            /\ UNCHANGED error
    /\ UNCHANGED <<Input, Cli, Buffers, total_rows, num_output_files,
                   read_chunk_size, first_chunk, chunk_rows, progress, result>>

\* split_csv.py:20-28: one turn of the loop, or its end.
CliWriteChunk ==
    /\ prog = "cli"
    /\ pc = "read"
    /\ LET r == TakeRows(file, pos, chunk_size)
       IN  /\ pos' = r.pos
           /\ IF r.rows = <<>> /\ ~first_chunk
              THEN /\ pc' = "done"
                   /\ UNCHANGED Cli
              ELSE /\ written' = Append(written,
                          [filename |-> PartName(chunk_number),
                           content |-> ToCsvFile(header, r.rows),
                           records |-> Len(r.rows)])
                   /\ chunk_number' = NextChunkNumber(chunk_number)
                   /\ UNCHANGED pc
    /\ first_chunk' = FALSE
    /\ UNCHANGED <<Input, Buffers, total_rows, num_output_files, read_chunk_size,
                   header, chunk_rows, progress, error, result>>

Next ==
    \/ Start
    \/ OpenReader
    \/ ReadChunk
    \/ ReadFails
    \/ ProcessRow
    \/ UpdateProgress
    \/ Finish
    \/ CliOpen
    \/ CliWriteChunk

Spec == Init /\ [][Next]_vars

(***************************************************************************)
(* What the claims speak of.                                               *)
(***************************************************************************)
\* The first non-empty line of the input and the non-empty lines after it.
HasHeaderLine == SelectNonBlank(file) # <<>>
InputHeader == Head(SelectNonBlank(file))
InputDataRows == IF HasHeaderLine THEN Tail(SelectNonBlank(file)) ELSE <<>>
R == Len(InputDataRows)

CeilDiv(a, b) == (a + b - 1) \div b

\* The rows of the chunks in chunk order, each chunk's header removed.
RECURSIVE ConcatRows(_)
ConcatRows(chunks) ==
    IF chunks = <<>> THEN <<>>
    ELSE Tail(Head(chunks).content) \o ConcatRows(Tail(chunks))

RECURSIVE SumRowCount(_)
SumRowCount(chunks) ==
    IF chunks = <<>> THEN 0
    ELSE Head(chunks).row_count + SumRowCount(Tail(chunks))

\* A call of split_csv_memory_efficient has returned from line 42 or line 123,
\* without entering one of its exception handlers.
Returned == prog = "app" /\ pc = "done" /\ error = "none"

\* C1: the rows of the returned chunks, concatenated in chunk order without
\* the headers, are exactly the input's non-empty data rows in input order.
C1_RoundTrip ==
    (Returned /\ result.chunks # <<>>) => ConcatRows(result.chunks) = InputDataRows

\* C2: when the returned chunk list is non-empty, the row_count fields of the
\* returned chunks add up to the returned total_rows.
C2_SumIsTotal ==
    (Returned /\ result.chunks # <<>>) => SumRowCount(result.chunks) = result.total

\* C3: with R >= 1 data rows the split returns ceil(R / C) chunks, as many as
\* num_output_files; all but the last hold C rows, the last R - C * (n - 1).
C3_ChunkCount ==
    (Returned /\ R >= 1) =>
        LET n == Len(result.chunks)
        IN  /\ n = CeilDiv(R, chunk_size)
            /\ n = num_output_files
            /\ \A k \in 1..(n - 1) : result.chunks[k].row_count = chunk_size
            /\ result.chunks[n].row_count = R - chunk_size * (n - 1)
            /\ result.chunks[n].row_count \in 1..chunk_size

\* C4: blank and whitespace-only lines do not affect counting: total_rows is
\* what count_csv_rows gives for the input with those lines removed.
C4_BlankLinesIgnored ==
    (prog = "app" /\ pc # "start") =>
        total_rows = count_csv_rows(SelectNonBlank(file))

\* C5: the header is the first non-empty line of the input, and the content
\* of every emitted chunk begins with it.
C5_HeaderIsFirstNonEmpty ==
    (prog = "app" /\ pc \in {"open", "read", "rows", "finish"} /\ HasHeaderLine) =>
        /\ header = InputHeader
        /\ \A k \in 1..Len(output_chunks) :
               Head(output_chunks[k].content) = InputHeader

\* C6: the k-th chunk emitted carries index k (split_k.csv, <base>_partk.csv),
\* and its rows all precede, in input order, the rows of chunk k + 1.
C6_ContiguousIndices ==
    /\ \A k \in 1..Len(output_chunks) :
           output_chunks[k].filename = [stem |-> "split_", index |-> k]
    /\ \A k \in 1..(Len(output_chunks) - 1) :
           \A i \in 2..Len(output_chunks[k].content) :
              \A j \in 2..Len(output_chunks[k + 1].content) :
                 output_chunks[k].content[i].id < output_chunks[k + 1].content[j].id
    /\ \A k \in 1..Len(written) :
           written[k].filename = [stem |-> "_part", index |-> k]
    /\ \A k \in 1..(Len(written) - 1) :
           \A i \in 2..Len(written[k].content) :
              \A j \in 2..Len(written[k + 1].content) :
                 written[k].content[i].id < written[k + 1].content[j].id
    /\ Returned => result.chunks = output_chunks

C6_ThreeChunksEmitted ==
    prog = "app" /\ pc = "done" /\ Len(result.chunks) = 3

\* C7: header "a,b,c", data rows r1..r5, capacity 2: three chunks,
\* [h, r1, r2], [h, r3, r4], [h, r5], with row counts 2, 2, 1.
C7_Scenario ==
    (/\ prog = "app" /\ pc = "done" /\ ~binary
     /\ chunk_size = 2
     /\ file = MakeFile(0, 5, "txt", -1)) =>
        /\ Len(result.chunks) = 3
        /\ \A k \in 1..3 :
              /\ k <= Len(result.chunks)
              /\ result.chunks[k].content =
                    <<HeaderLine>> \o SubSeq(InputDataRows, 2 * k - 1, Min(2 * k, 5))
              /\ result.chunks[k].row_count = Len(result.chunks[k].content) - 1

\* C8: a failure during streaming after k >= 1 chunks were emitted ends in the
\* failed outcome, the partial buffer is not delivered, and the k chunks
\* remain available to the caller.
C8_EmittedChunksSurvive ==
    (prog = "app" /\ pc = "done" /\ error = "processing" /\ Len(output_chunks) >= 1) =>
        /\ MainReport(result) = "no_data"
        /\ ConcatRows(result.chunks) = ConcatRows(output_chunks)
        /\ result.chunks = output_chunks

\* C9: an input with no data rows ends in the "no data" outcome with no chunk
\* returned, and no chunk is emitted at any point of the run; an input whose
\* first line is not blank returns ([], 0).
C9_EmptyInput ==
    (prog = "app" /\ R = 0) =>
        /\ output_chunks = <<>>
        /\ pc = "done" =>
              /\ result.chunks = <<>>
              /\ MainReport(result) = "no_data"
              /\ (file = <<>> \/ ~IsBlank(file[1])) => result = EmptyResult

C9_HeaderAndBlankDone ==
    prog = "app" /\ pc = "done" /\ file = <<HeaderLine, SpaceLine>>

\* C10: between the rows of the buffer-and-flush loop, current_output_size is
\* the length of the buffer and below the capacity, output_file_number is one
\* more than the number of chunks, every chunk holds C rows and
\* rows_processed = C * chunks + current_output_size.
C10_LoopInvariant ==
    (prog = "app" /\ pc \in {"read", "rows", "finish"}) =>
        /\ current_output_size = Len(current_output_buffer)
        /\ 0 <= current_output_size /\ current_output_size < chunk_size
        /\ output_file_number = Len(output_chunks) + 1
        /\ \A k \in 1..Len(output_chunks) :
              /\ output_chunks[k].row_count = chunk_size
              /\ Len(output_chunks[k].content) = chunk_size + 1
        /\ rows_processed = chunk_size * Len(output_chunks) + current_output_size

C10_BufferingAfterFlush ==
    /\ prog = "app" /\ pc = "rows"
    /\ Len(output_chunks) >= 1
    /\ current_output_size >= 1

====
